---- MODULE Spec2Model ----
(***************************************************************************)
(* picospawn: argument/option resolution (resolveParams, shellEscape), the *)
(* async launcher (createSpawn) with its promise and event handlers, and   *)
(* the sync launcher (spawnSync).                                          *)
(*                                                                         *)
(* Text is modelled as a sequence of one-character strings, so that        *)
(* splitting, trimming, quoting and placeholder substitution are computed  *)
(* character by character as the code computes them.  JavaScript values of *)
(* mixed type (string | false | null | undefined | array) are tagged       *)
(* records.                                                                *)
(***************************************************************************)
EXTENDS Integers, Sequences, FiniteSets, TLC

VARIABLES
  pc,        \* "idle" | "resolved" | "running" | "returned" | "exited"
  call,      \* the call's inputs: command, param2, param3, defaultOptions
  resolved,  \* the triple resolveParams returned: command, args, options
  launched,  \* what the native spawn primitive was given: command, args, shell
  proc,      \* the ChildProcess object (async): exitCode, signalCode, buffers, fields
  child,     \* the child's side: chunks written and not yet delivered, liveness
  trace,     \* the Error allocated at the call (part_000:164): name, message, proc
  promise,   \* the Promise of part_000:165: state, value, alreadyResolved, reactions
  jobs,      \* the microtask queue
  awaiter,   \* a caller that did `await handle`: "none" | "waiting" | "resumed" | "threw"
  events,    \* which process events the handlers have handled, in order
  sync,      \* the blocking primitive's result and what spawnSync did with it
  reads,     \* what the caller got the last time it read a member of the handle
  streams    \* the transformer pipelines (part_000:130), by child fd

vars == <<pc, call, resolved, launched, proc, child, trace, promise, jobs,
          awaiter, events, sync, reads, streams>>

-----------------------------------------------------------------------------
(* Bounds of the model *)

\* deepest nesting of an argument inside the argument array that is drawn
MaxNest == 11
\* chunks a child writes to its stdout
MaxOutChunks == 2
\* chunks a child writes to its stderr
MaxErrChunks == 1
\* largest exit status drawn
MaxCode == 2
\* longest text handed to shellEscape on its own
MaxLen == 4

-----------------------------------------------------------------------------
(* Text *)

Lower == {"a","b","c","d","e","f","g","h","i","j","k","l","m",
          "n","o","p","q","r","s","t","u","v","w","x","y","z"}
Upper == {"A","B","C","D","E","F","G","H","I","J","K","L","M",
          "N","O","P","Q","R","S","T","U","V","W","X","Y","Z"}
Digit == {"0","1","2","3","4","5","6","7","8","9"}

\* \w of the regular expressions: [A-Za-z0-9_]
WordChars == Lower \cup Upper \cup Digit \cup {"_"}

\* the characters shellEscape leaves alone: [A-Za-z0-9_\/:=-]
SafeChars == WordChars \cup {"/", ":", "=", "-"}

\* what String.prototype.trim / trimEnd remove (the members that occur here)
WhiteSpace == {" ", "\n", "\t"}

SP == <<" ">>
SQ == "'"
BS == "\\"

RECURSIVE Concat(_)
\* Buffer.concat(chunks).toString(), Array.prototype.join('')
Concat(ss) == IF Len(ss) = 0 THEN <<>> ELSE Head(ss) \o Concat(Tail(ss))

RECURSIVE Join(_, _)
\* Array.prototype.join(sep) on an array of texts
Join(ss, sep) ==
  IF Len(ss) = 0 THEN <<>>
  ELSE IF Len(ss) = 1 THEN Head(ss)
  ELSE Head(ss) \o sep \o Join(Tail(ss), sep)

RECURSIVE SplitFrom(_, _)
\* String.prototype.split(' '): the tokens between spaces, empty ones kept.
\* cur is the token being read.
SplitFrom(s, cur) ==
  IF Len(s) = 0 THEN <<cur>>
  ELSE IF Head(s) = " " THEN <<cur>> \o SplitFrom(Tail(s), <<>>)
  ELSE SplitFrom(Tail(s), Append(cur, Head(s)))

Split(s) == SplitFrom(s, <<>>)

\* String.prototype.includes(' ')
IncludesSpace(s) == \E i \in 1..Len(s) : s[i] = " "

RECURSIVE TrimStart(_)
TrimStart(s) ==
  IF Len(s) > 0 /\ Head(s) \in WhiteSpace THEN TrimStart(Tail(s)) ELSE s

RECURSIVE TrimEnd(_)
\* String.prototype.trimEnd
TrimEnd(s) ==
  IF Len(s) > 0 /\ s[Len(s)] \in WhiteSpace
  THEN TrimEnd(SubSeq(s, 1, Len(s) - 1)) ELSE s

\* String.prototype.trim
Trim(s) == TrimEnd(TrimStart(s))

-----------------------------------------------------------------------------
(* JavaScript values that occur in an argument array *)

Str(chars) == [tag |-> "str", chars |-> chars]
Arr(items) == [tag |-> "arr", items |-> items]
JsFalse == [tag |-> "false"]
JsNull  == [tag |-> "null"]
Undef   == [tag |-> "undef"]
Obj(o)  == [tag |-> "obj", opts |-> o]

\* Array.isArray
isArray(v) == v.tag = "arr"

\* Boolean(v): arrays and objects are truthy, '' false null undefined are not
Truthy(v) ==
  \/ v.tag \in {"arr", "obj"}
  \/ v.tag = "str" /\ Len(v.chars) > 0

\* the depth argument of Array.prototype.flat in resolveParams
FlatDepth == 10

RECURSIVE Flat(_, _)
\* Array.prototype.flat(depth)
Flat(items, depth) ==
  IF Len(items) = 0 THEN <<>>
  ELSE LET h == Head(items)
       IN  (IF isArray(h) /\ depth > 0 THEN Flat(h.items, depth - 1) ELSE <<h>>)
           \o Flat(Tail(items), depth)

RECURSIVE FilterBoolean(_)
\* Array.prototype.filter(Boolean)
FilterBoolean(items) ==
  IF Len(items) = 0 THEN <<>>
  ELSE (IF Truthy(Head(items)) THEN <<Head(items)>> ELSE <<>>)
       \o FilterBoolean(Tail(items))

-----------------------------------------------------------------------------
(* shellEscape *)

RECURSIVE EscapeQuotes(_)
\* arg.replace(/'/g, "'\\''")
EscapeQuotes(s) ==
  IF Len(s) = 0 THEN <<>>
  ELSE (IF Head(s) = SQ THEN <<SQ, BS, SQ, SQ>> ELSE <<Head(s)>>)
       \o EscapeQuotes(Tail(s))

RECURSIVE StripLeadingPairs(_)
\* arg.replace(/^(?:'')+/g, '')
StripLeadingPairs(s) ==
  IF Len(s) >= 2 /\ s[1] = SQ /\ s[2] = SQ
  THEN StripLeadingPairs(SubSeq(s, 3, Len(s))) ELSE s

RECURSIVE CollapseEscaped(_)
\* arg.replace(/\\'''/g, "\\'")
CollapseEscaped(s) ==
  IF Len(s) = 0 THEN <<>>
  ELSE IF Len(s) >= 4 /\ s[1] = BS /\ s[2] = SQ /\ s[3] = SQ /\ s[4] = SQ
  THEN <<BS, SQ>> \o CollapseEscaped(SubSeq(s, 5, Len(s)))
  ELSE <<Head(s)>> \o CollapseEscaped(Tail(s))

\* variant: the argument wrapped in single quotes, its own quotes not escaped
shellEscapeNaive(arg) ==
  IF Len(arg) > 0 /\ (\E i \in 1..Len(arg) : arg[i] \notin SafeChars)
  THEN <<SQ>> \o arg \o <<SQ>>
  ELSE arg

shellEscape(arg) ==
  IF Len(arg) > 0 /\ (\E i \in 1..Len(arg) : arg[i] \notin SafeChars)
  THEN CollapseEscaped(StripLeadingPairs(<<SQ>> \o EscapeQuotes(arg) \o <<SQ>>))
  ELSE arg

-----------------------------------------------------------------------------
(* Options objects.  A field holds "absent" when the object has no such    *)
(* key, "undef" when the key is present with the value undefined.          *)

Mode(m)   == [kind |-> "mode", mode |-> m, entries |-> <<>>]
StdioArr(es) == [kind |-> "array", mode |-> "", entries |-> es]
NoStdio   == [kind |-> "absent", mode |-> "", entries |-> <<>>]

NoOpts == [shell |-> "absent", reject |-> "absent", json |-> "absent",
           exit |-> "absent", trimEnd |-> "absent", encoding |-> "absent",
           stdio |-> NoStdio]

FlagKeys == {"shell", "reject", "json", "exit", "trimEnd", "encoding"}

\* the own enumerable properties an object spread copies; spreading
\* undefined copies nothing
SpreadOf(v) == IF v.tag = "obj" THEN v.opts ELSE NoOpts

\* { ...a, ...b }: a key of b, whatever its value, replaces the key of a
MergeOptions(a, b) ==
  [k \in DOMAIN a |->
     IF k \in FlagKeys
     THEN (IF b[k] # "absent" THEN b[k] ELSE a[k])
     ELSE (IF b[k].kind # "absent" THEN b[k] ELSE a[k])]

\* truthiness of a flag value
FlagTruthy(v) == v \notin {"absent", "undef", "false", "null"}

-----------------------------------------------------------------------------
(* resolveParams *)

PH == Str(<<"%", "s">>)
EmptyStr == Str(<<>>)

\* args.shift() || ''  : the value taken
ShiftOrEmpty(args) ==
  IF Len(args) > 0 /\ Truthy(Head(args)) THEN Head(args) ELSE EmptyStr

\* args after args.shift()
Shifted(args) == IF Len(args) > 0 THEN Tail(args) ELSE args

\* variant: /%s/ without the word boundary
PlaceholderAnywhere(s) ==
  /\ Len(s) >= 2
  /\ s[1] = "%"
  /\ s[2] = "s"

\* the regular expression /%s\b/ matches at the head of s
PlaceholderAt(s) ==
  /\ Len(s) >= 2
  /\ s[1] = "%"
  /\ s[2] = "s"
  /\ (Len(s) = 2 \/ s[3] \notin WordChars)

RECURSIVE ShellSubst(_, _)
\* command.replace(/%s\b/g, () => shellEscape(args.shift() || ''))
\* together with what the callback leaves in args
ShellSubst(s, args) ==
  IF Len(s) = 0 THEN [command |-> <<>>, args |-> args]
  ELSE IF PlaceholderAt(s)
  THEN LET rest == ShellSubst(SubSeq(s, 3, Len(s)), Shifted(args))
       IN  [command |-> shellEscape(ShiftOrEmpty(args).chars) \o rest.command,
            args |-> rest.args]
  ELSE LET rest == ShellSubst(Tail(s), args)
       IN  [command |-> <<Head(s)>> \o rest.command, args |-> rest.args]

\* Array.prototype.indexOf: the first index holding v, 0 when there is none
IndexOf(seq, v) ==
  IF \E i \in 1..Len(seq) : seq[i] = v
  THEN CHOOSE i \in 1..Len(seq) :
         seq[i] = v /\ \A j \in 1..(i - 1) : seq[j] # v
  ELSE 0

RECURSIVE SubstLoop(_, _)
\* for (let i; (i = parsedArgs.indexOf('%s')) >= 0; ) parsedArgs[i] = args.shift() || ''
SubstLoop(parsedArgs, args) ==
  LET i == IndexOf(parsedArgs, PH)
  IN  IF i = 0 THEN [parsedArgs |-> parsedArgs, args |-> args]
      ELSE SubstLoop([parsedArgs EXCEPT ![i] = ShiftOrEmpty(args)], Shifted(args))

\* lines 42-48: the argument list
NormalizeArgs(overridesOrArgs) ==
  IF isArray(overridesOrArgs)
  THEN FilterBoolean(Flat(overridesOrArgs.items, FlatDepth))
  ELSE <<>>

StrTokens(toks) == [i \in 1..Len(toks) |-> Str(toks[i])]

resolveParams(command, overridesOrArgs, overrides, defaultOptions) ==
  LET args0   == NormalizeArgs(overridesOrArgs)
      ovr     == IF isArray(overridesOrArgs) THEN overrides ELSE overridesOrArgs
      options == MergeOptions(SpreadOf(defaultOptions), SpreadOf(ovr))
  IN  IF FlagTruthy(options.shell)
      THEN LET r == ShellSubst(command, args0)
           IN  [command |-> r.command, args |-> r.args, options |-> options]
      ELSE IF IncludesSpace(command)
      THEN LET toks == Split(command)
               r    == SubstLoop(StrTokens(Tail(toks)), args0)
           IN  [command |-> Head(toks), args |-> r.parsedArgs \o r.args,
                options |-> options]
      ELSE [command |-> command, args |-> args0, options |-> options]

-----------------------------------------------------------------------------
(* The launch: what createSpawn and spawnSync hand to the native primitive *)

\* variant: the array handed on as it came
StdioPrimitiveKeep(stdio) == stdio

\* options.stdio.map(...) of createSpawn: a transformer function becomes 'pipe'
StdioPrimitive(stdio) ==
  IF stdio.kind = "array"
  THEN [stdio EXCEPT !.entries =
          [i \in 1..Len(stdio.entries) |->
             IF stdio.entries[i] = "fn" THEN "pipe" ELSE stdio.entries[i]]]
  ELSE stdio

\* the positions of the stdio array that hold a transformer (streams[index])
TransformerPositions(stdio) ==
  IF stdio.kind = "array"
  THEN {i \in 1..Len(stdio.entries) : stdio.entries[i] = "fn"}
  ELSE {}

\* [process.stdin, process.stdout, process.stderr][index]: the parent's
\* standard stream of that number, -1 for the undefined beyond them
ParentStream(index) == IF index \in 0..2 THEN index ELSE -1

\* the Writables of streams[], each with the child stream piped into it by
\* proc.stdio[index].pipe(stream) and the sink it was created with
Pipelines(stdio) ==
  { [source |-> i - 1, sink |-> ParentStream(i - 1)] :
      i \in TransformerPositions(stdio) }

\* whether the child's stream fd (0 stdin, 1 stdout, 2 stderr) is a pipe the
\* parent can read: proc.stdout / proc.stderr is then a stream, otherwise null
PipedFd(stdio, fd) ==
  CASE stdio.kind \in {"absent", "undef"} -> TRUE
    [] stdio.kind = "mode" -> stdio.mode \in {"pipe", "overlapped"}
    [] OTHER -> IF fd + 1 <= Len(stdio.entries)
                THEN stdio.entries[fd + 1] \in {"pipe", "overlapped", "undef"}
                ELSE TRUE

EscapeAll(args) == [i \in 1..Len(args) |-> shellEscape(args[i].chars)]

\* variant: no fold, the remaining arguments stay in the argument list
FoldNothing(r) == [command |-> r.command, args |-> r.args]

\* "Avoid DEP0190": in shell mode the remaining arguments are folded into
\* the command string
FoldShellArgs(r) ==
  IF FlagTruthy(r.options.shell) /\ Len(r.args) > 0
  THEN [command |-> r.command \o SP \o Join(EscapeAll(r.args), SP), args |-> <<>>]
  ELSE [command |-> r.command, args |-> r.args]

\* The primitive's view of a launch.  With the shell option the primitive
\* runs /bin/sh -c "<command and args joined by spaces>".
BinSh == <<"/", "b", "i", "n", "/", "s", "h">>
DashC == <<"-", "c">>

CharsOf(args) == [i \in 1..Len(args) |-> args[i].chars]

spawnargs(l) ==
  IF FlagTruthy(l.shell)
  THEN <<BinSh, DashC, Join(<<l.command>> \o CharsOf(l.args), SP)>>
  ELSE <<l.command>> \o CharsOf(l.args)

NotLaunched == [command |-> <<>>, args |-> <<>>, shell |-> "absent",
                stdio |-> NoStdio, by |-> "none", pipelines |-> {}]

Launch(r, stdio, by) ==
  LET f == FoldShellArgs(r)
  IN  [command |-> f.command, args |-> f.args, shell |-> r.options.shell,
       stdio |-> stdio, by |-> by, pipelines |-> {}]

-----------------------------------------------------------------------------
(* The objects the call writes to *)

\* variant: `args` is the caller's array itself
ArgsObjectCaller(overridesOrArgs) ==
  IF isArray(overridesOrArgs) THEN "caller" ELSE "own"

\* the array `args` that args.shift() shortens: the one flat(10).filter(Boolean)
\* returned, or the literal []; either way an array made by the call
ArgsObject(overridesOrArgs) == "own"

\* the object the two spreads fill: the literal of `const options = {...}`
OptionsObject(defaultOptions, overrides) == "own"

\* the array holding 'pipe' for the transformers: the one map() returned
StdioObject(stdio) == "own"

\* how many elements the shift() calls of resolveParams took off `args`
ShiftedOff(command, overridesOrArgs, overrides, defaultOptions) ==
  LET args0 == NormalizeArgs(overridesOrArgs)
      r     == resolveParams(command, overridesOrArgs, overrides, defaultOptions)
  IN  IF FlagTruthy(r.options.shell) THEN Len(args0) - Len(r.args)
      ELSE IF IncludesSpace(command)
      THEN Len(args0) - (Len(r.args) - Len(Tail(Split(command))))
      ELSE 0

\* an options value of the caller after the call: written only if it is
\* the object the merge fills, or if its stdio array is the one that gets
\* the 'pipe' entries
OptionsAfter(v, merged, target, mapped) ==
  IF v.tag # "obj" THEN v
  ELSE IF target THEN Obj(merged)
  ELSE IF mapped /\ v.opts.stdio.kind = "array" /\ StdioObject(v.opts.stdio) = "caller"
  THEN Obj([v.opts EXCEPT !.stdio = StdioPrimitive(@)])
  ELSE v

\* the caller's objects after resolveParams and, for createSpawn (mapped),
\* the stdio mapping
InputsAfter(command, overridesOrArgs, overrides, defaultOptions, mapped) ==
  LET r    == resolveParams(command, overridesOrArgs, overrides, defaultOptions)
      ovr  == IF isArray(overridesOrArgs) THEN overrides ELSE overridesOrArgs
      obj  == OptionsObject(defaultOptions, ovr)
      k    == ShiftedOff(command, overridesOrArgs, overrides, defaultOptions)
  IN  [param2 |->
         IF isArray(overridesOrArgs)
         THEN (IF ArgsObject(overridesOrArgs) = "caller"
               THEN Arr(SubSeq(overridesOrArgs.items, k + 1,
                               Len(overridesOrArgs.items)))
               ELSE overridesOrArgs)
         ELSE OptionsAfter(overridesOrArgs, r.options, obj = "overrides", mapped),
       param3 |->
         OptionsAfter(overrides, r.options,
                      isArray(overridesOrArgs) /\ obj = "overrides", mapped),
       defaults |->
         OptionsAfter(defaultOptions, r.options, obj = "defaults", mapped)]

CallRecord(c, p2, p3, d, mapped) ==
  [command |-> c, param2 |-> p2, param3 |-> p3, defaults |-> d,
   after |-> InputsAfter(c, p2, p3, d, mapped)]

-----------------------------------------------------------------------------
(* Exit codes and signals *)

Num(n) == [tag |-> "num", n |-> n]
Sig(s) == [tag |-> "sig", name |-> s]

\* variant: `exitCode > 0`, which takes a signal kill (exitCode null) for success
NotZeroPositiveOnly(code) == code.tag = "num" /\ code.n > 0

\* exitCode !== 0
NotZero(code) == code # Num(0)

\* truthiness of `signal ?? status`
Coalesce(signal, status) == IF signal # JsNull THEN signal ELSE status
\* variant: only a numeric status counts, a signal name does not
CodeTruthyStatusOnly(c) == c.tag = "num" /\ c.n # 0

CodeTruthy(c) == c.tag = "sig" \/ (c.tag = "num" /\ c.n # 0)

\* JSON.stringify(proc.signalCode)
JsonStringify(v) == IF v = JsNull THEN <<"null">> ELSE <<"\"", v.name, "\"">>

-----------------------------------------------------------------------------
(* The accessors of defineOutputProperty *)

\* JSON.parse on the texts that occur here (digits, letters a-z, white
\* space): such a text is JSON exactly when it is a number literal
IsJson(text) ==
  /\ Len(text) > 0
  /\ \A i \in 1..Len(text) : text[i] \in Digit
  /\ (Len(text) = 1 \/ text[1] # "0")

JsonParse(text) ==
  IF IsJson(text) THEN [kind |-> "parsed", of |-> text]
  ELSE [kind |-> "SyntaxError", of |-> text]

\* the reader streamToString returns
ReadBuffer(chunks) == Trim(Concat(chunks))

\* get: () => (options?.json ? JSON.parse(read()) : read())
ReadOutput(chunks, json) ==
  IF FlagTruthy(json) THEN JsonParse(ReadBuffer(chunks))
  ELSE [kind |-> "text", of |-> ReadBuffer(chunks)]

-----------------------------------------------------------------------------
(* The state before any call *)

\* the call as it was made, and under `after` the caller's objects as the
\* call leaves them
NoCall == [command |-> <<>>, param2 |-> Undef, param3 |-> Undef,
           defaults |-> Undef,
           after |-> [param2 |-> Undef, param3 |-> Undef, defaults |-> Undef]]
NoResolved == [command |-> <<>>, args |-> <<>>, options |-> NoOpts]
NoProc == [exitCode |-> JsNull, signalCode |-> JsNull,
           stdout |-> "null", stderr |-> "null",
           outChunks |-> <<>>, errChunks |-> <<>>,
           error |-> "absent", hasThen |-> FALSE]
NoChild == [alive |-> FALSE, outPipe |-> <<>>, errPipe |-> <<>>,
            outWritten |-> <<>>, errWritten |-> <<>>,
            closed |-> {}, ended |-> {}]
\* the child's output fds
Fds == {1, 2}
\* a Writable made by createAsyncGeneratorStream, with its generator:
\* queue holds the chunks written to it and not yet handed to write();
\* gen is "none" | "start" | "running" | "suspended" | "done"; undrained
\* holds while the sink's last write() returned false and no 'drain' came
NoStream == [attached |-> FALSE, queue |-> <<>>, busy |-> FALSE,
             gen |-> "none", param |-> <<>>, received |-> <<>>,
             yields |-> <<>>, sunk |-> <<>>, ending |-> FALSE,
             final |-> "no", returns |-> 0, errored |-> FALSE,
             undrained |-> FALSE]
NoMessage == [spawned |-> <<>>, signal |-> <<>>, code |-> JsNull]
\* stack is where the error object was made ("call": inside the invoking
\* call); procEnumerable and procWritable are attributes of its `proc`
NoTrace == [allocated |-> FALSE, name |-> "Error", message |-> NoMessage,
            proc |-> "absent", stack |-> "none", procEnumerable |-> FALSE,
            procWritable |-> FALSE]
NoPromise == [state |-> "none", value |-> "none", alreadyResolved |-> FALSE,
              reactions |-> <<>>]
NoResult == [status |-> JsNull, signal |-> JsNull, stdout |-> JsNull,
             stderr |-> JsNull, error |-> "absent"]
NoSync == [native |-> NoResult, result |-> NoResult,
           outcome |-> "none", code |-> JsNull, value |-> JsNull,
           printed |-> FALSE]

NoRead == [name |-> "none", after |-> <<>>, got |-> [kind |-> "none", of |-> <<>>]]

Init ==
  /\ pc = "idle"
  /\ call = NoCall
  /\ resolved = NoResolved
  /\ launched = NotLaunched
  /\ proc = NoProc
  /\ child = NoChild
  /\ trace = NoTrace
  /\ promise = NoPromise
  /\ jobs = <<>>
  /\ awaiter = "none"
  /\ events = <<>>
  /\ sync = NoSync
  /\ reads = NoRead
  /\ streams = [fd \in Fds |-> NoStream]

-----------------------------------------------------------------------------
(* Promise machinery (the runtime's, as the code drives it) *)

ReactionJobs(rs, how) == [i \in 1..Len(rs) |-> [type |-> "reaction", who |-> rs[i], how |-> how]]

\* FulfillPromise / RejectPromise: the state is set and the reactions are queued
Settle(p, state, value) ==
  [p EXCEPT !.state = state, !.value = value, !.reactions = <<>>]

\* variant: a reject that settles again whatever happened before
RejectWithAlways(p, reason) == Settle(p, "rejected", reason)

\* the reject function handed to the executor
RejectWith(p, reason) ==
  IF p.alreadyResolved THEN p
  ELSE [Settle(p, "rejected", reason) EXCEPT !.alreadyResolved = TRUE]

RejectJobs(p) ==
  IF p.alreadyResolved THEN <<>> ELSE ReactionJobs(p.reactions, "rejected")

\* the resolve function handed to the executor, called with the process
\* object: an object with a callable `then` is a thenable, and the promise
\* then waits for a job that calls that `then`
ResolveWithProc(p, hasThen) ==
  IF p.alreadyResolved THEN p
  ELSE IF hasThen THEN [p EXCEPT !.alreadyResolved = TRUE]
  ELSE [Settle(p, "fulfilled", "proc") EXCEPT !.alreadyResolved = TRUE]

ResolveJobs(p, hasThen) ==
  IF p.alreadyResolved THEN <<>>
  ELSE IF hasThen THEN << [type |-> "thenable", who |-> "proc", how |-> "then"] >>
  ELSE ReactionJobs(p.reactions, "fulfilled")

-----------------------------------------------------------------------------
(* createSpawn: the async launcher *)

\* variant: a new error made where the failure is seen
decorateErrorFresh(error, p, l) ==
  [error EXCEPT !.name = "ChildProcessError",
                !.message = [spawned |-> Join(spawnargs(l), SP),
                             signal |-> JsonStringify(p.signalCode),
                             code |-> p.exitCode],
                !.proc = "proc",
                !.stack = "exit handler",
                !.procEnumerable = TRUE]

\* decorateError: name and message are assigned on the object passed in, and
\* Object.defineProperty(error, 'proc', { enumerable: true, value: proc })
\* leaves writable at its default, false
decorateError(error, p, l) ==
  [error EXCEPT !.name = "ChildProcessError",
                !.message = [spawned |-> Join(spawnargs(l), SP),
                             signal |-> JsonStringify(p.signalCode),
                             code |-> p.exitCode],
                !.proc = "proc",
                !.procEnumerable = TRUE,
                !.procWritable = FALSE]

\* the whole call: resolveParams, the stdio mapping, the fold, the launch,
\* the trace, the promise with its subscriptions, Object.assign
AsyncCall(c, p2, p3, d) ==
  /\ pc = "idle"
  /\ LET r     == resolveParams(c, p2, p3, d)
         stdio == StdioPrimitive(r.options.stdio)
     IN  /\ call' = CallRecord(c, p2, p3, d, TRUE)
         /\ resolved' = r
         /\ launched' = [Launch(r, stdio, "spawn") EXCEPT
                           !.pipelines = Pipelines(r.options.stdio)]
         /\ proc' = [NoProc EXCEPT
                       !.stdout = IF PipedFd(stdio, 1) THEN "stream" ELSE "null",
                       !.stderr = IF PipedFd(stdio, 2) THEN "stream" ELSE "null",
                       !.hasThen = TRUE]
         /\ child' = [NoChild EXCEPT !.alive = TRUE]
         /\ streams' = [fd \in Fds |->
                          [NoStream EXCEPT !.attached =
                             (fd + 1) \in TransformerPositions(r.options.stdio)]]
  /\ trace' = [NoTrace EXCEPT !.allocated = TRUE, !.stack = "call"]
  /\ promise' = [NoPromise EXCEPT !.state = "pending", !.reactions = <<"awaiter">>]
  /\ awaiter' = "waiting"
  /\ pc' = "running"
  /\ UNCHANGED <<jobs, events, sync, reads>>

\* the child writes a chunk to a piped stream
ChildWrites(fd, chunk) ==
  /\ pc = "running"
  /\ child.alive
  /\ fd \notin child.closed
  /\ \/ /\ fd = 1
        /\ proc.stdout = "stream"
        /\ Len(child.outWritten) < MaxOutChunks
        /\ child' = [child EXCEPT !.outPipe = Append(@, chunk),
                                  !.outWritten = Append(@, chunk)]
     \/ /\ fd = 2
        /\ proc.stderr = "stream"
        /\ Len(child.errWritten) < MaxErrChunks
        /\ child' = [child EXCEPT !.errPipe = Append(@, chunk),
                                  !.errWritten = Append(@, chunk)]
  /\ UNCHANGED <<pc, call, resolved, launched, proc, trace, promise, jobs,
                 awaiter, events, sync, reads, streams>>

\* variant: one chunks array shared by the two streamToString readers
OnDataShared(fd) ==
  /\ pc = "running"
  /\ \/ /\ fd = 1
        /\ Len(child.outPipe) > 0
        /\ proc' = [proc EXCEPT !.outChunks = Append(@, Head(child.outPipe))]
        /\ child' = [child EXCEPT !.outPipe = Tail(@)]
     \/ /\ fd = 2
        /\ Len(child.errPipe) > 0
        /\ proc' = [proc EXCEPT !.outChunks = Append(@, Head(child.errPipe))]
        /\ child' = [child EXCEPT !.errPipe = Tail(@)]
  /\ UNCHANGED <<pc, call, resolved, launched, trace, promise, jobs, awaiter,
                 events, sync, reads, streams>>

\* stream.on('data', chunk => chunks.push(chunk)) of streamToString
OnData(fd) ==
  /\ pc = "running"
  /\ \/ /\ fd = 1
        /\ Len(child.outPipe) > 0
        /\ proc' = [proc EXCEPT !.outChunks = Append(@, Head(child.outPipe))]
        /\ child' = [child EXCEPT !.outPipe = Tail(@)]
     \/ /\ fd = 2
        /\ Len(child.errPipe) > 0
        /\ proc' = [proc EXCEPT !.errChunks = Append(@, Head(child.errPipe))]
        /\ child' = [child EXCEPT !.errPipe = Tail(@)]
  \* the 'data' listener of proc.stdio[fd].pipe(stream), part_000:161
  /\ LET chunk == IF fd = 1 THEN Head(child.outPipe) ELSE Head(child.errPipe)
     IN  streams' = IF streams[fd].attached /\ ~streams[fd].errored
                    THEN [streams EXCEPT ![fd].queue = Append(@, chunk)]
                    ELSE streams
  /\ UNCHANGED <<pc, call, resolved, launched, trace, promise, jobs, awaiter,
                 events, sync, reads>>

\* variant: an error handler that honours `reject: false` by resolving
OnErrorHonoursReject ==
  /\ pc = "running"
  /\ \A i \in 1..Len(events) : events[i] # "error"
  /\ IF resolved.options.reject # "false"
     THEN /\ promise' = RejectWith(promise, "rawError")
          /\ jobs' = jobs \o RejectJobs(promise)
     ELSE /\ promise' = ResolveWithProc(promise, FALSE)
          /\ jobs' = jobs \o ResolveJobs(promise, FALSE)
  /\ events' = Append(events, "error")
  /\ UNCHANGED <<pc, call, resolved, launched, proc, child, trace, awaiter, sync, reads, streams>>

\* proc.on('error', reject)
OnError ==
  /\ pc = "running"
  /\ \A i \in 1..Len(events) : events[i] # "error"
  /\ promise' = RejectWith(promise, "rawError")
  /\ jobs' = jobs \o RejectJobs(promise)
  /\ events' = Append(events, "error")
  /\ UNCHANGED <<pc, call, resolved, launched, proc, child, trace, awaiter, sync, reads, streams>>

\* variant: the member is left as it was
defineOutputPropertyNone(obj, name) == obj

\* Object.defineProperty(obj, name, { enumerable: true, get }): the member
\* is from now on the getter over the accumulated chunks
defineOutputProperty(obj, name) == [obj EXCEPT ![name] = "accessor"]

\* proc.on('exit', exitCode => ...): the runtime has set exitCode and
\* signalCode on the process before it emits the event
OnExit(code, signal) ==
  /\ pc = "running"
  /\ \A i \in 1..Len(events) : events[i] # "exit"
  /\ LET p0  == [proc EXCEPT !.exitCode = code, !.signalCode = signal]
         p1  == defineOutputProperty(defineOutputProperty(p0, "stdout"), "stderr")
         err == decorateError(trace, p1, launched)
     IN  IF NotZero(code)
         THEN /\ trace' = err
              /\ IF resolved.options.reject # "false"
                 THEN /\ proc' = [p1 EXCEPT !.error = "trace"]
                      /\ promise' = RejectWith(promise, "trace")
                      /\ jobs' = jobs \o RejectJobs(promise)
                 ELSE /\ proc' = p1
                      /\ promise' = ResolveWithProc(promise, p1.hasThen)
                      /\ jobs' = jobs \o ResolveJobs(promise, p1.hasThen)
         ELSE /\ trace' = trace
              /\ proc' = p1
              /\ promise' = ResolveWithProc(promise, p1.hasThen)
              /\ jobs' = jobs \o ResolveJobs(promise, p1.hasThen)
  /\ child' = [child EXCEPT !.alive = FALSE, !.closed = Fds]
  /\ events' = Append(events, "exit")
  /\ UNCHANGED <<pc, call, resolved, launched, awaiter, sync, reads, streams>>

\* the child closes one of its output streams while it runs
ChildCloses(fd) ==
  /\ pc = "running"
  /\ child.alive
  /\ fd \notin child.closed
  /\ child' = [child EXCEPT !.closed = @ \cup {fd}]
  /\ UNCHANGED <<pc, call, resolved, launched, proc, trace, promise, jobs,
                 awaiter, events, sync, reads, streams>>

\* the child's stream has ended: every chunk was delivered and the child
\* holds the stream no more; pipe() then calls end() on the Writable
OnEnd(fd) ==
  /\ pc = "running"
  /\ PipedFd(launched.stdio, fd)
  /\ fd \in child.closed
  /\ fd \notin child.ended
  /\ Len(IF fd = 1 THEN child.outPipe ELSE child.errPipe) = 0
  /\ child' = [child EXCEPT !.ended = @ \cup {fd}]
  /\ streams' = IF streams[fd].attached /\ ~streams[fd].errored
                 THEN [streams EXCEPT ![fd].ending = TRUE]
                 ELSE streams
  /\ UNCHANGED <<pc, call, resolved, launched, proc, trace, promise, jobs,
                 awaiter, events, sync, reads>>

\* what a transformer yields for a chunk, when it yields a value
Transformed(chunk) == <<">">> \o chunk
\* a yield of undefined
YieldsUndefined == <<"undefined">>

\* variant: the generator is made without the chunk, init()
InitWithNothing(data) == YieldsUndefined

\* the argument of init in `generator ??= init(data)`
InitWith(data) == data

\* generator.next(v): a generator that has not started runs its body with
\* its parameter and drops v; a suspended one gets v as the value of its
\* yield.  The value the transformer's code receives:
NextDelivers(st, v) == IF st.gen = "start" THEN st.param ELSE v

\* the listeners createSpawn registers for 'error' on the Writable it pipes
\* a child stream into: pipe(stream) is all it does with it
ErrorListeners(fd) == {}

\* the Writable, destroyed by callback(error), emits 'error'; an 'error'
\* event without a listener is thrown, and nothing catches it: the parent
\* process ends on the uncaught exception
ErrorEvent(fd) == IF ErrorListeners(fd) = {} THEN "uncaught" ELSE "running"

\* write(chunk, encoding, callback) up to its await: the Writable hands
\* over one chunk only when the callback of the previous one was called
TransformWrite(fd) ==
  /\ pc = "running"
  /\ streams[fd].attached
  /\ ~streams[fd].busy
  /\ ~streams[fd].errored
  /\ streams[fd].final = "no"
  /\ Len(streams[fd].queue) > 0
  /\ LET data == Head(streams[fd].queue)
         st0  == IF streams[fd].gen = "none"
                 THEN [streams[fd] EXCEPT !.gen = "start", !.param = InitWith(data)]
                 ELSE streams[fd]
     IN  streams' = [streams EXCEPT ![fd] =
                       [st0 EXCEPT !.busy = TRUE,
                                   !.queue = Tail(@),
                                   !.gen = IF st0.gen = "done" THEN "done" ELSE "running",
                                   !.received = IF st0.gen = "done" THEN @
                                                ELSE Append(@, NextDelivers(st0, data))]]
  /\ UNCHANGED <<pc, call, resolved, launched, proc, child, trace, promise,
                 jobs, awaiter, events, sync, reads>>

\* the awaited next() has settled: the rest of write(); more is what
\* sink.write(result.value) returns, which the code does not look at
TransformStep(fd, outcome, more) ==
  /\ pc = "running"
  /\ streams[fd].busy
  /\ streams[fd].final = "no"
  /\ LET st == streams[fd]
         v  == Transformed(st.received[Len(st.received)])
     IN  CASE st.gen = "done" ->
                \* result.done: nothing is written, callback()
                /\ outcome = "value"
                /\ streams' = [streams EXCEPT ![fd].busy = FALSE]
           [] st.gen # "done" /\ outcome = "value" ->
                /\ streams' = [streams EXCEPT ![fd].busy = FALSE,
                                              ![fd].gen = "suspended",
                                              ![fd].yields = Append(@, v),
                                              ![fd].sunk = Append(@, v),
                                              ![fd].undrained = ~more]
           [] st.gen # "done" /\ outcome = "undefined" ->
                /\ streams' = [streams EXCEPT ![fd].busy = FALSE,
                                              ![fd].gen = "suspended",
                                              ![fd].yields = Append(@, YieldsUndefined)]
           [] st.gen # "done" /\ outcome = "throw" ->
                \* callback(error): the Writable is destroyed
                /\ streams' = [streams EXCEPT ![fd].busy = FALSE,
                                              ![fd].gen = "done",
                                              ![fd].queue = <<>>,
                                              ![fd].errored = TRUE]
           [] OTHER -> FALSE
  /\ pc' = IF streams[fd].gen # "done" /\ outcome = "throw"
           THEN ErrorEvent(fd) ELSE pc
  /\ UNCHANGED <<call, resolved, launched, proc, child, trace, promise,
                 jobs, awaiter, events, sync, reads>>

\* the parent's stream has flushed what it buffered: 'drain'
SinkDrains(fd) ==
  /\ pc = "running"
  /\ streams[fd].undrained
  /\ streams' = [streams EXCEPT ![fd].undrained = FALSE]
  /\ UNCHANGED <<pc, call, resolved, launched, proc, child, trace, promise,
                 jobs, awaiter, events, sync, reads>>

\* final(callback) up to its await: generator?.return()
TransformFinal(fd) ==
  /\ pc = "running"
  /\ streams[fd].attached
  /\ streams[fd].ending
  /\ ~streams[fd].busy
  /\ ~streams[fd].errored
  /\ Len(streams[fd].queue) = 0
  /\ streams[fd].final = "no"
  /\ streams' = [streams EXCEPT
                   ![fd].final = "running",
                   ![fd].returns = IF streams[fd].gen = "none" THEN @ ELSE @ + 1,
                   ![fd].gen = IF streams[fd].gen = "none" THEN "none" ELSE "done"]
  /\ UNCHANGED <<pc, call, resolved, launched, proc, child, trace, promise,
                 jobs, awaiter, events, sync, reads>>

\* the awaited return() has settled: callback() and the Writable finishes,
\* or the generator's cleanup threw: callback(error)
TransformFinalDone(fd, outcome) ==
  /\ pc = "running"
  /\ streams[fd].final = "running"
  /\ \/ /\ outcome = "return"
        /\ streams' = [streams EXCEPT ![fd].final = "done"]
        /\ pc' = pc
     \/ /\ outcome = "throw"
        /\ streams[fd].returns > 0
        /\ streams' = [streams EXCEPT ![fd].final = "done",
                                      ![fd].errored = TRUE]
        /\ pc' = ErrorEvent(fd)
  /\ UNCHANGED <<call, resolved, launched, proc, child, trace, promise,
                 jobs, awaiter, events, sync, reads>>

\* the members of a ChildProcess that occur here, with `error` once the exit
\* handler has attached it
ChildProcessMembers ==
  {"pid", "kill", "on", "stdin", "stdout", "stderr", "stdio", "exitCode",
   "signalCode", "spawnargs"}
ProcMembers(p) ==
  ChildProcessMembers \cup (IF p.error # "absent" THEN {"error"} ELSE {})

\* the keys Object.assign copies onto the process
AssignedKeys == {"then", "catch", "finally"}

\* variant: the promise's methods copied without bind
BoundThisNone(name) == "none"

\* promise.then.bind(promise): the object the copied method is bound to
BoundThis(name) == "promise"

\* handle[name] on the value createSpawn returns, which is the process
\* object itself (Object.assign returns its target): the object the member
\* comes from and, for a bound function, the object it is bound to
HandleLookup(p, name) ==
  IF p.hasThen /\ name \in AssignedKeys
  THEN [of |-> "promise", bound |-> BoundThis(name)]
  ELSE IF name \in ProcMembers(p) THEN [of |-> "proc", bound |-> "none"]
  ELSE [of |-> "none", bound |-> "none"]

\* the `this` of a call handle.name(...): the bound object of a bound
\* function, otherwise the receiver, which is the process object
RunsAgainst(got) ==
  IF got.of = "none" THEN "none"
  ELSE IF got.bound # "none" THEN got.bound
  ELSE "proc"

\* the caller reads handle.stdout or handle.stderr: before the exit
\* handler has run the member is the child's stream (or null), afterwards
\* the getter installed by defineOutputProperty runs
ReadMember(name) ==
  /\ pc = "running"
  /\ LET member == IF name = "stdout" THEN proc.stdout ELSE proc.stderr
         chunks == IF name = "stdout" THEN proc.outChunks ELSE proc.errChunks
         json   == IF name = "stdout" THEN resolved.options.json ELSE "absent"
         got    == IF member = "accessor" THEN ReadOutput(chunks, json)
                   ELSE [kind |-> member, of |-> <<>>]
     IN  reads' = [name |-> name, after |-> events, got |-> got]
  /\ UNCHANGED <<pc, call, resolved, launched, proc, child, trace, promise,
                 jobs, awaiter, events, sync, streams>>

\* one microtask
RunJob ==
  /\ pc = "running"
  /\ Len(jobs) > 0
  /\ LET j == Head(jobs)
     IN  CASE j.type = "thenable" ->
                \* proc.then(resolveFn, rejectFn) is promise.then(...): a
                \* reaction on the promise itself
                /\ IF promise.state = "pending"
                   THEN /\ promise' = [promise EXCEPT !.reactions = Append(@, "self")]
                        /\ jobs' = Tail(jobs)
                   ELSE /\ promise' = promise
                        /\ jobs' = Tail(jobs) \o
                             ReactionJobs(<<"self">>, promise.state)
                /\ awaiter' = awaiter
           [] j.type = "reaction" /\ j.who = "awaiter" ->
                /\ awaiter' = IF j.how = "fulfilled" THEN "resumed" ELSE "threw"
                /\ jobs' = Tail(jobs)
                /\ promise' = promise
           [] OTHER ->
                \* the resolving functions of the thenable job, called on a
                \* promise that has settled: nothing changes
                /\ jobs' = Tail(jobs)
                /\ UNCHANGED <<promise, awaiter>>
  /\ UNCHANGED <<pc, call, resolved, launched, proc, child, trace, events, sync, reads, streams>>

-----------------------------------------------------------------------------
(* spawnSync: the sync launcher *)

Buf(chars) == [tag |-> "buf", chars |-> chars]

\* the defaults spawnSync passes to resolveParams
SyncDefaults ==
  Obj([NoOpts EXCEPT !.stdio = Mode("inherit"), !.encoding = "utf-8"])

\* variant: the text is trimmed whatever `trimEnd` says
TrimResultAlways(res, options) ==
  IF res.stdout.tag = "str"
  THEN [res EXCEPT !.stdout = Str(TrimEnd(res.stdout.chars))]
  ELSE res

\* result.stdout = result.stdout.trimEnd(), when stdout is a string
TrimResult(res, options) ==
  IF options.trimEnd # "false" /\ res.stdout.tag = "str"
  THEN [res EXCEPT !.stdout = Str(TrimEnd(res.stdout.chars))]
  ELSE res

\* result.stderr?.length
HasLength(v) == v.tag \in {"str", "buf"} /\ Len(v.chars) > 0

\* the whole call, given the result `res` of the blocking primitive
SyncCall(c, p2, p3, res) ==
  /\ pc = "idle"
  /\ LET r      == resolveParams(c, p2, p3, SyncDefaults)
         result == TrimResult(res, r.options)
         code   == Coalesce(result.signal, result.status)
     IN  /\ call' = CallRecord(c, p2, p3, SyncDefaults, FALSE)
         /\ resolved' = r
         /\ launched' = Launch(r, r.options.stdio, "spawnSync")
         /\ IF r.options.exit # "false"
            THEN IF CodeTruthy(code)
                 THEN /\ pc' = "exited"
                      /\ sync' = [native |-> res, result |-> result, outcome |-> "exit",
                                  code |-> code, value |-> JsNull,
                                  printed |-> HasLength(result.stderr)]
                 ELSE /\ pc' = "returned"
                      /\ sync' = [native |-> res, result |-> result, outcome |-> "stdout",
                                  code |-> JsNull, value |-> result.stdout,
                                  printed |-> HasLength(result.stderr)]
            ELSE /\ pc' = "returned"
                 /\ sync' = [native |-> res, result |-> result, outcome |-> "result",
                             code |-> JsNull, value |-> result.stdout,
                             printed |-> FALSE]
  /\ UNCHANGED <<proc, child, trace, promise, jobs, awaiter, events, reads, streams>>

\* resolveParams applied on its own
ApplyResolveParams(c, p2, p3, d) ==
  /\ pc = "idle"
  /\ call' = CallRecord(c, p2, p3, d, FALSE)
  /\ resolved' = resolveParams(c, p2, p3, d)
  /\ pc' = "resolved"
  /\ UNCHANGED <<launched, proc, child, trace, promise, jobs, awaiter, events,
                 sync, reads, streams>>

\* shellEscape applied on its own: the text is kept in call.command, the
\* token in resolved.command
ApplyShellEscape(arg) ==
  /\ pc = "idle"
  /\ call' = [NoCall EXCEPT !.command = arg]
  /\ resolved' = [NoResolved EXCEPT !.command = shellEscape(arg)]
  /\ pc' = "escaped"
  /\ UNCHANGED <<launched, proc, child, trace, promise, jobs, awaiter, events,
                 sync, reads, streams>>

-----------------------------------------------------------------------------
(* The inputs drawn *)

\* the characters of the texts quoted: safe ones, space, single quote,
\* backslash, and a shell metacharacter
EscapeAlphabet == {"a", "=", " ", SQ, BS, "$"}

RECURSIVE TextsOfLen(_)
TextsOfLen(n) ==
  IF n = 0 THEN {<<>>}
  ELSE {Append(t, ch) : t \in TextsOfLen(n - 1), ch \in EscapeAlphabet}

\* every non-empty text of at most MaxLen characters
EscapeTexts == UNION {TextsOfLen(n) : n \in 1..MaxLen}

T_e       == <<"e">>
T_e_b     == <<"e", " ", "b">>
T_e_ph_b  == <<"e", " ", "%", "s", " ", "b">>
T_e_ph_ph == <<"e", " ", "%", "s", " ", "%", "s">>
T_e_phx   == <<"e", " ", "%", "s", "x", " ", "%", "s">>

Commands == {T_e, T_e_b, T_e_ph_b, T_e_ph_ph, T_e_phx}

A_fg    == Str(<<"f", " ", "g">>)
A_q     == Str(<<"q">>)
A_quote == Str(<<"i", "'", "s">>)

\* argument arrays as callers write them: nested, with falsy entries
ArgLists ==
  { <<>>,
    <<A_fg>>,
    <<A_fg, A_q>>,
    <<A_fg, Arr(<<A_q>>)>>,
    <<JsFalse, A_q, Arr(<<JsNull, Arr(<<A_fg>>)>>), Undef, EmptyStr>>,
    <<PH, A_q>>,
    <<A_quote, A_q, A_fg>> }

RECURSIVE Nest(_, _)
\* v wrapped in k arrays
Nest(v, k) == IF k = 0 THEN v ELSE Arr(<<Nest(v, k - 1)>>)

\* an argument nested k deep between two plain ones
DeepArgLists == { <<A_q, Nest(A_fg, k), JsFalse, A_q>> : k \in 0..MaxNest }

Flag(k, v) == Obj([NoOpts EXCEPT ![k] = v])

ShellOptions == {Undef, Flag("shell", "true"), Flag("shell", "false")}

\* the calls of the async lifecycle: [command, param2, param3, defaults]
AsyncCalls ==
  { <<T_e_b, Undef, Undef, Undef>>,
    <<T_e_ph_b, Arr(<<A_fg, A_q>>), Undef, Undef>>,
    <<T_e, Flag("reject", "false"), Undef, Undef>>,
    <<T_e, Arr(<<A_q>>), Obj([NoOpts EXCEPT !.reject = "false", !.json = "true"]), Undef>>,
    <<T_e, Obj([NoOpts EXCEPT !.stdio = Mode("inherit")]), Undef, Undef>>,
    <<T_e_b, Undef, Undef, Flag("json", "true")>>,
    <<T_e_ph_b, Arr(<<A_fg>>), Flag("shell", "true"), Flag("reject", "false")>>,
    <<T_e, Flag("reject", "undef"), Undef, Flag("reject", "false")>>,
    <<T_e, Flag("reject", "true"), Undef, Undef>> }

OutChunks == { <<" ", "1">>, <<"a", "\n">> }
ErrChunks == { <<"w", " ">> }

ExitCases ==
  { <<Num(n), JsNull>> : n \in 0..MaxCode } \cup { <<JsNull, Sig("SIGTERM")>> }

\* option objects given to spawnSync
SyncOptions ==
  { Undef,
    Flag("exit", "false"),
    Flag("exit", "true"),
    Flag("exit", "undef"),
    Obj([NoOpts EXCEPT !.stdio = Mode("pipe")]),
    Obj([NoOpts EXCEPT !.stdio = Mode("pipe"), !.exit = "false"]),
    Obj([NoOpts EXCEPT !.stdio = Mode("pipe"), !.trimEnd = "false"]),
    Obj([NoOpts EXCEPT !.stdio = Mode("pipe"), !.json = "true"]),
    Obj([NoOpts EXCEPT !.stdio = Mode("pipe"), !.encoding = "buffer"]),
    Obj([NoOpts EXCEPT !.stdio = Mode("pipe"), !.trimEnd = "false",
                       !.exit = "false"]),
    Obj([NoOpts EXCEPT !.stdio = Mode("pipe"), !.encoding = "buffer",
                       !.exit = "false"]) }

SyncTexts == { <<>>, <<" ", "a", " ">>, <<"a", "\n">>, <<"1", "\n">>, <<" ", "\n">> }
SyncErrTexts == { <<>>, <<"w">> }

\* what the blocking primitive can return under the given options
NativeResults(options) ==
  LET wrap(t) == IF options.encoding \in {"buffer", "null"} THEN Buf(t) ELSE Str(t)
      outs == IF PipedFd(options.stdio, 1) THEN {wrap(t) : t \in SyncTexts}
              ELSE {JsNull}
      errs == IF PipedFd(options.stdio, 2) THEN {wrap(t) : t \in SyncErrTexts}
              ELSE {JsNull}
  IN  { [status |-> e[1], signal |-> e[2], stdout |-> o, stderr |-> x,
         error |-> "absent"] : e \in ExitCases, o \in outs, x \in errs }
      \cup
      \* the command could not be started
      { [status |-> JsNull, signal |-> JsNull, stdout |-> JsNull,
         stderr |-> JsNull, error |-> "ENOENT"] }

-----------------------------------------------------------------------------
(* Specifications *)

\* the async launcher and the life of its process
CallAsync == \E c \in AsyncCalls : AsyncCall(c[1], c[2], c[3], c[4])
Write == \E fd \in {1, 2} :
           \E chunk \in (IF fd = 1 THEN OutChunks ELSE ErrChunks) :
             ChildWrites(fd, chunk)
Data == \E fd \in {1, 2} : OnData(fd)
Exit == \E e \in ExitCases : OnExit(e[1], e[2])

Read == \E name \in {"stdout", "stderr"} : ReadMember(name)

Next == CallAsync \/ Write \/ Data \/ OnError \/ Exit \/ RunJob

Spec == Init /\ [][Next]_vars

\* the async launcher with a caller that reads the handle's output members
NextRead == Next \/ Read

SpecRead == Init /\ [][NextRead]_vars

\* the async launcher with transformer functions in the stdio array
Fn == "fn"
StreamCalls ==
  { <<T_e, Obj([NoOpts EXCEPT !.stdio = StdioArr(<<"inherit", Fn, "inherit">>)]), Undef, Undef>>,
    <<T_e, Obj([NoOpts EXCEPT !.stdio = StdioArr(<<"pipe", "pipe", Fn>>),
                             !.reject = "false"]), Undef, Undef>> }

CallStream == \E c \in StreamCalls : AsyncCall(c[1], c[2], c[3], c[4])
Close == \E fd \in Fds : ChildCloses(fd)
End == \E fd \in Fds : OnEnd(fd)
StepOutcomes == {"value", "undefined", "throw"}
FinalOutcomes == {"return", "throw"}
Transform ==
  \E fd \in Fds :
    \/ TransformWrite(fd)
    \/ \E outcome \in StepOutcomes :
         \E more \in (IF outcome = "value" THEN BOOLEAN ELSE {TRUE}) :
           TransformStep(fd, outcome, more)
    \/ TransformFinal(fd)
    \/ \E outcome \in FinalOutcomes : TransformFinalDone(fd, outcome)

Drain == \E fd \in Fds : SinkDrains(fd)

NextStream ==
  CallStream \/ Write \/ Close \/ Data \/ End \/ Transform \/ Drain \/ OnError
    \/ Exit \/ RunJob

SpecStream == Init /\ [][NextStream]_vars

\* the sync launcher
CallSync ==
  \E c \in {T_e, T_e_ph_b}, p2 \in {Undef, Arr(<<A_fg, A_q>>)} \cup SyncOptions,
     p3 \in SyncOptions :
    \E res \in NativeResults(resolveParams(c, p2, p3, SyncDefaults).options) :
      SyncCall(c, p2, p3, res)

NextSync == CallSync

SpecSync == Init /\ [][NextSync]_vars

\* argument and option resolution, and the launch that follows it
ResolveAny ==
  \E c \in Commands, p2 \in {Arr(l) : l \in ArgLists \cup DeepArgLists} :
    ApplyResolveParams(c, p2, Undef, Undef)

LaunchAsyncAny ==
  \E c \in Commands, p2 \in {Arr(l) : l \in ArgLists} \cup {Undef}, p3 \in ShellOptions,
     d \in {Undef, Flag("shell", "true")} :
    AsyncCall(c, p2, p3, d)

LaunchSyncAny ==
  \E c \in Commands, p2 \in {Arr(l) : l \in ArgLists} \cup {Undef}, p3 \in ShellOptions :
    \E res \in { [status |-> Num(0), signal |-> JsNull, stdout |-> JsNull,
                  stderr |-> JsNull, error |-> "absent"] } :
      SyncCall(c, p2, p3, res)

\* the defaults bound in a variant: none (spawn), json (spawn.json), and
\* two made with createSpawn
VariantDefaults ==
  { Undef,
    Flag("json", "true"),
    Obj([NoOpts EXCEPT !.reject = "false", !.shell = "true"]),
    Obj([NoOpts EXCEPT !.stdio = Mode("inherit")]) }

\* the options object of a call
PerCallOptions ==
  { Flag("json", "false"),
    Flag("reject", "true"),
    Flag("shell", "false"),
    Obj([NoOpts EXCEPT !.stdio = Mode("pipe"), !.json = "true"]) }

\* calls through a variant: (command), (command, options),
\* (command, args), (command, args, options), (command, undefined, options)
LaunchVariantAny ==
  \E d \in VariantDefaults :
    \/ \E p2 \in {Undef, Arr(<<A_q>>)} \cup PerCallOptions :
         AsyncCall(T_e_b, p2, Undef, d)
    \/ \E p2 \in {Undef, Arr(<<A_q>>)}, p3 \in PerCallOptions :
         AsyncCall(T_e_b, p2, p3, d)

\* stdio specifications: a mode for all streams, or three or four entries,
\* the first three of them a mode or a transformer function
StdioModes == {"pipe", "inherit", "ignore"}
StdioSpecs ==
  {Mode(m) : m \in StdioModes} \cup
  {StdioArr(<<a, b, c>>) : a \in StdioModes \cup {"fn"}, b \in StdioModes \cup {"fn"},
                           c \in StdioModes \cup {"fn"}} \cup
  {StdioArr(<<a, b, c, "pipe">>) :
     a \in StdioModes \cup {"fn"}, b \in StdioModes \cup {"fn"},
     c \in StdioModes \cup {"fn"}}

LaunchStdioAny ==
  \E st \in StdioSpecs :
    AsyncCall(T_e, Obj([NoOpts EXCEPT !.stdio = st]), Undef, Undef)

NextParams ==
  ResolveAny \/ LaunchAsyncAny \/ LaunchSyncAny \/ LaunchVariantAny \/ LaunchStdioAny

SpecParams == Init /\ [][NextParams]_vars

\* the quoter on its own
NextEscape == \E arg \in EscapeTexts : ApplyShellEscape(arg)

SpecEscape == Init /\ [][NextEscape]_vars

-----------------------------------------------------------------------------
(* Properties of the async launcher, under Spec *)

Handled(e) == \E i \in 1..Len(events) : events[i] = e
Settled == promise.state \in {"fulfilled", "rejected"}
\* nothing is left to run in the microtask queue
Quiet == Len(jobs) = 0
\* the exit event was handled and no error event before it
ExitFirst == Len(events) > 0 /\ events[1] = "exit"
\* the process exited with a non-zero code or was terminated by a signal
Failed ==
  \/ proc.signalCode # JsNull
  \/ proc.exitCode.tag = "num" /\ proc.exitCode.n # 0
RejectOff == resolved.options.reject = "false"

\* the error object is the decorated ChildProcessError of this process
Decorated ==
  /\ trace.name = "ChildProcessError"
  /\ trace.proc = "proc"
  /\ trace.message.spawned = Join(spawnargs(launched), SP)
  /\ trace.message.signal = JsonStringify(proc.signalCode)
  /\ trace.message.code = proc.exitCode

\* C1: once the process has emitted exit (any code, any signal) or error,
\* and the queued microtasks have run, the awaitable has settled and the
\* caller awaiting it has been resumed; in particular for exit code 0.
C1_SettlesAfterEvent ==
  (pc = "running" /\ Len(events) > 0 /\ Quiet)
    => (Settled /\ awaiter \in {"resumed", "threw"})

\* C2: with piped stdout and stderr, exit code 0 and no signal (and no
\* JSON flag), the awaitable is fulfilled, and the stdout (stderr) accessor
\* of the resolved value reads the trimmed concatenation, in emission
\* order, of all chunks the child wrote to that stream.
C2_ExitZeroResolvesWithOutput ==
  ( /\ pc = "running"
    /\ events = <<"exit">>
    /\ proc.exitCode = Num(0)
    /\ proc.signalCode = JsNull
    /\ PipedFd(launched.stdio, 1)
    /\ ~FlagTruthy(resolved.options.json)
    /\ Quiet )
    => /\ promise.state = "fulfilled"
       /\ promise.value = "proc"
       /\ ReadOutput(proc.outChunks, resolved.options.json)
            = [kind |-> "text", of |-> Trim(Concat(child.outWritten))]
       /\ ReadOutput(proc.errChunks, "absent")
            = [kind |-> "text", of |-> Trim(Concat(child.errWritten))]

\* C3 (as stated): whenever the process has exited with a non-zero code or
\* by a signal and `reject` is not false, the awaitable is rejected with
\* the decorated ChildProcessError.
C3_FailureRejectsAlways ==
  (pc = "running" /\ Handled("exit") /\ Failed /\ ~RejectOff)
    => (promise.state = "rejected" /\ promise.value = "trace" /\ Decorated)

\* C3 (amended): when the exit event is handled before any error event,
\* the process exited with a non-zero code or by a signal and `reject` is
\* not false, the awaitable is rejected with the error object allocated at
\* the call, decorated as ChildProcessError: name, proc, and a message
\* holding the spawned argv joined by spaces, the signal and the exit
\* code.  (After an earlier error event the rejection reason stays that
\* raw error.)
C3_FailureRejects ==
  (pc = "running" /\ ExitFirst /\ Failed /\ ~RejectOff)
    => /\ promise.state = "rejected"
       /\ promise.value = "trace"
       /\ Decorated
       /\ (Quiet => awaiter = "threw")

C3_Witness ==
  /\ pc = "running"
  /\ events = <<"exit">>
  /\ proc.signalCode = Sig("SIGTERM")
  /\ resolved.options.reject = "undef"
  /\ promise.state = "rejected"
  /\ awaiter = "threw"

\* C4: with `reject: false`, a non-zero exit code or a signal makes the
\* awaitable resolve with the process, whose `error` field then holds the
\* decorated ChildProcessError; on exit code 0 the `error` field is absent.
C4_RejectOffAttachesError ==
  (pc = "running" /\ ExitFirst /\ Quiet)
    => /\ (Failed /\ RejectOff)
            => /\ promise.state = "fulfilled"
               /\ promise.value = "proc"
               /\ proc.error = "trace"
               /\ Decorated
       /\ ~Failed => proc.error = "absent"

\* C5: when the process emits an error event and no exit event, the
\* awaitable is rejected with that raw error object, the error allocated
\* at the call is left undecorated, and this is so for every value of the
\* `reject` option, false included.
C5_LaunchErrorRejectsRaw ==
  (pc = "running" /\ events = <<"error">>)
    => /\ promise.state = "rejected"
       /\ promise.value = "rawError"
       /\ trace.name = "Error"
       /\ trace.proc = "absent"
       /\ proc.error = "absent"
       /\ (Quiet => awaiter = "threw")

C5_Witness ==
  /\ pc = "running"
  /\ events = <<"error">>
  /\ RejectOff
  /\ promise.value = "rawError"
  /\ awaiter = "threw"

-----------------------------------------------------------------------------
(* Properties of the sync launcher, under SpecSync *)

SyncDone == launched.by = "spawnSync" /\ pc \in {"returned", "exited"}
\* the `exit` option the launcher acts on
ExitOn == resolved.options.exit # "false"
\* `signal ?? status` of the child, and whether it is truthy
ChildCode ==
  IF sync.native.signal # JsNull THEN sync.native.signal ELSE sync.native.status
ChildCodeTruthy ==
  \/ ChildCode.tag = "sig"
  \/ ChildCode.tag = "num" /\ ChildCode.n # 0

\* C6: when the command cannot be started (the primitive reports an error,
\* status null, signal null), the failure reaches the caller for every
\* value of `exit`: the call does not return an ordinary stdout value.
C6_LaunchErrorSurfaced ==
  (SyncDone /\ sync.native.error # "absent") => sync.outcome # "stdout"

\* C7: the sync launcher terminates the hosting process exactly when `exit`
\* is not false and `signal ?? status` is truthy, with that value as the
\* termination code; with `exit` on and code 0 / no signal it returns the
\* bare stdout; with `exit` false it never terminates and returns the full
\* result, whose status is the child's.
C7_SyncExitPolicy ==
  SyncDone =>
    /\ (sync.outcome = "exit") <=> (ExitOn /\ ChildCodeTruthy)
    /\ (pc = "exited") <=> (sync.outcome = "exit")
    /\ sync.outcome = "exit" => sync.code = ChildCode
    /\ (ExitOn /\ ~ChildCodeTruthy)
         => (sync.outcome = "stdout" /\ sync.value = sync.result.stdout)
    /\ ~ExitOn
         => /\ sync.outcome = "result"
            /\ sync.result.status = sync.native.status
            /\ sync.result.signal = sync.native.signal

C7_Witness ==
  /\ SyncDone
  /\ pc = "exited"
  /\ resolved.options.exit = "undef"
  /\ sync.code = Sig("SIGTERM")

-----------------------------------------------------------------------------
(* Properties of argument resolution and of the launch, under SpecParams *)

RECURSIVE Leaves(_)
\* the non-falsy string leaves of an argument array, left to right, at
\* whatever depth they sit
Leaves(items) ==
  IF Len(items) = 0 THEN <<>>
  ELSE LET h == Head(items)
       IN  (IF h.tag = "arr" THEN Leaves(h.items)
            ELSE IF h.tag = "str" /\ Len(h.chars) > 0 THEN <<h>>
            ELSE <<>>)
           \o Leaves(Tail(items))

\* the argument list a1..an of the call
CallArgs == IF call.param2.tag = "arr" THEN Leaves(call.param2.items) ELSE <<>>

ShellMode == FlagTruthy(resolved.options.shell)
Launched == launched.by \in {"spawn", "spawnSync"}

\* C8: for an argument list with strings, false, null, undefined and lists
\* nested to any depth, normalization yields exactly the non-falsy string
\* leaves, once each, in order, and no list survives as an element.
\* (Read where resolveParams returns the normalized list as it is: no
\* shell, no space in the command.)
C8_NormalizeAnyDepth ==
  (pc = "resolved" /\ ~IncludesSpace(call.command))
    => /\ resolved.args = Leaves(call.param2.items)
       /\ \A i \in 1..Len(resolved.args) : resolved.args[i].tag = "str"

RECURSIVE Positional(_, _, _)
\* the tokens with the k-th, (k+1)-th, ... `%s` token replaced by a[k],
\* a[k+1], ..., the empty string once a is exhausted
Positional(tokens, a, k) ==
  IF Len(tokens) = 0 THEN <<>>
  ELSE IF Head(tokens) = <<"%", "s">>
  THEN <<IF k <= Len(a) THEN a[k] ELSE Str(<<>>)>> \o Positional(Tail(tokens), a, k + 1)
  ELSE <<Str(Head(tokens))>> \o Positional(Tail(tokens), a, k)

PlaceholderTokens(tokens) ==
  Cardinality({i \in 1..Len(tokens) : tokens[i] = <<"%", "s">>})

\* C9: non-shell mode, a command with a space, arguments a1..an: the
\* program launched is the first token, and the argument list is the other
\* tokens with the k-th `%s` replaced by a_k (empty when k > n), followed
\* by the arguments no placeholder consumed.
C9_NonShellPlaceholders ==
  (Launched /\ ~ShellMode /\ IncludesSpace(call.command))
    => LET toks == Split(call.command)
           n    == PlaceholderTokens(Tail(toks))
       IN  /\ launched.command = Head(toks)
           /\ launched.args =
                Positional(Tail(toks), CallArgs, 1)
                \o SubSeq(CallArgs, n + 1, Len(CallArgs))

\* the `%s` occurrences of a shell-mode command string
ShellPlaceholders(c) ==
  Cardinality({i \in 1..Len(c) : PlaceholderAt(SubSeq(c, i, Len(c)))})

\* the command string with its placeholders substituted
Substituted == ShellSubst(call.command, CallArgs).command

\* the arguments no placeholder consumed
Unconsumed ==
  SubSeq(CallArgs, ShellPlaceholders(call.command) + 1, Len(CallArgs))

\* C10 (as stated): in shell mode the launched command line is only the
\* command string with its placeholders substituted; unconsumed arguments
\* are not appended, for the async and the sync launcher.
C10_ShellDropsUnconsumed ==
  (Launched /\ ShellMode)
    => (launched.command = Substituted /\ Len(launched.args) = 0)

RECURSIVE QuotedTail(_)
\* each argument shell-quoted and preceded by one space
QuotedTail(args) ==
  IF Len(args) = 0 THEN <<>>
  ELSE <<" ">> \o shellEscape(Head(args).chars) \o QuotedTail(Tail(args))

\* C10 (amended): in shell mode the arguments no placeholder consumed are
\* appended to the substituted command string, each shell-quoted and
\* preceded by one space, and the launch gets an empty argument list, for
\* the async and the sync launcher; only when every argument was consumed
\* is the command line the substituted command string alone.
C10_ShellAppendsUnconsumed ==
  (Launched /\ ShellMode)
    => /\ launched.command = Substituted \o QuotedTail(Unconsumed)
       /\ Len(launched.args) = 0

C10_Witness ==
  /\ launched.by = "spawnSync"
  /\ ShellMode
  /\ Len(Unconsumed) = 2
  /\ ShellPlaceholders(call.command) = 1
  /\ Len(launched.command) > Len(Substituted)

-----------------------------------------------------------------------------
(* Properties of the quoter, under SpecEscape *)

RECURSIVE ShellWord(_, _, _)
\* POSIX shell word parsing of a token: inside single quotes every
\* character is literal; outside them a backslash makes the next character
\* literal, and a space or an unescaped metacharacter ends the word.  The
\* result is the word read, or a failure when the text is not one word.
ShellWord(t, quoted, word) ==
  IF Len(t) = 0
  THEN (IF quoted THEN [ok |-> FALSE, word |-> word] ELSE [ok |-> TRUE, word |-> word])
  ELSE IF quoted
  THEN (IF Head(t) = SQ THEN ShellWord(Tail(t), FALSE, word)
        ELSE ShellWord(Tail(t), TRUE, Append(word, Head(t))))
  ELSE IF Head(t) = SQ THEN ShellWord(Tail(t), TRUE, word)
  ELSE IF Head(t) = BS
  THEN (IF Len(t) = 1 THEN [ok |-> FALSE, word |-> word]
        ELSE ShellWord(SubSeq(t, 3, Len(t)), FALSE, Append(word, t[2])))
  ELSE IF Head(t) \in SafeChars THEN ShellWord(Tail(t), FALSE, Append(word, Head(t)))
  ELSE [ok |-> FALSE, word |-> word]

OnlySafe(s) == \A i \in 1..Len(s) : s[i] \in SafeChars

\* C11: for every non-empty text s over safe characters, space, single
\* quote, backslash (and a metacharacter), the quoter's output is one shell
\* word that shell parsing turns back into exactly s; and when s has only
\* characters of [A-Za-z0-9_/:=-] the output equals s.
C11_QuoteRoundTrip ==
  pc = "escaped"
    => /\ ShellWord(resolved.command, FALSE, <<>>) = [ok |-> TRUE, word |-> call.command]
       /\ OnlySafe(call.command) => resolved.command = call.command

C11_Witness ==
  /\ pc = "escaped"
  /\ call.command = <<SQ, BS, SQ, " ">>
  /\ resolved.command # call.command

-----------------------------------------------------------------------------
(* Properties of the effective options, under SpecParams *)

\* the options object the call supplies: in the second position, or in the
\* third when the second holds the argument list or nothing
PerCall == IF call.param2.tag = "obj" THEN call.param2 ELSE call.param3

\* the value the call supplies for a key if it has the key, otherwise the
\* value bound in the variant, otherwise none (the library default applies)
Expected(k) ==
  LET own   == SpreadOf(PerCall)[k]
      bound == SpreadOf(call.defaults)[k]
      has   == IF k = "stdio" THEN own.kind # "absent" ELSE own # "absent"
  IN  IF has THEN own ELSE bound

\* C12: for the options the launcher acts on (json, reject, shell, stdio),
\* the effective value is the per-call value when the call supplies one,
\* otherwise the value bound in the variant, otherwise the library default;
\* and the launch is made with that shell and stdio value.
C12_EffectiveOptions ==
  Launched
    => /\ \A k \in {"json", "reject", "shell", "stdio"} :
            resolved.options[k] = Expected(k)
       /\ launched.shell = Expected("shell")
       /\ launched.stdio = StdioPrimitive(Expected("stdio"))

-----------------------------------------------------------------------------
(* Properties of the output accessors, under SpecRead *)

JsonOn == FlagTruthy(resolved.options.json)
\* the last read went through the accessor installed by the exit handler
ReadAfterExit(name) ==
  reads.name = name /\ \E i \in 1..Len(reads.after) : reads.after[i] = "exit"

\* C13: with the JSON flag set, output that is not valid JSON does not
\* change how the awaitable settles: after exit code 0 it is fulfilled and
\* the awaiting caller resumed, whatever the output; a read of `stdout`
\* raises the parse error exactly when the trimmed output is not JSON, each
\* time it is read; `stderr` reads are text, never decoded.
C13_JsonErrorAtRead ==
  /\ ( /\ pc = "running"
       /\ events = <<"exit">>
       /\ proc.exitCode = Num(0)
       /\ JsonOn
       /\ Quiet )
       => (promise.state = "fulfilled" /\ awaiter = "resumed")
  /\ (ReadAfterExit("stdout") /\ JsonOn)
       => /\ reads.got.kind \in {"parsed", "SyntaxError"}
          /\ (reads.got.kind = "SyntaxError") <=> ~IsJson(reads.got.of)
  /\ ReadAfterExit("stderr") => reads.got.kind = "text"

-----------------------------------------------------------------------------
(* Properties of the sync launcher's stdout value, under SpecSync *)

\* the value JSON.parse gives for a JSON text
JsonValue(text) == [tag |-> "json", of |-> text]

\* C14: a sync invocation with the JSON flag set, on a command whose
\* captured stdout is JSON text, returns the parsed value, not the raw text.
C14_SyncJsonParsed ==
  ( /\ SyncDone
    /\ FlagTruthy(resolved.options.json)
    /\ sync.outcome = "stdout"
    /\ sync.native.stdout.tag = "str"
    /\ IsJson(Trim(sync.native.stdout.chars)) )
    => sync.value = JsonValue(Trim(sync.native.stdout.chars))

-----------------------------------------------------------------------------
(* Properties of the transformer pipelines, under SpecStream *)

\* the chunks the child wrote to a stream, and those its 'data' events
\* have delivered so far
Written(fd) == IF fd = 1 THEN child.outWritten ELSE child.errWritten
Delivered(fd) == IF fd = 1 THEN proc.outChunks ELSE proc.errChunks

IsPrefix(a, b) == Len(a) <= Len(b) /\ a = SubSeq(b, 1, Len(a))

RECURSIVE Defined(_)
\* the yields that are not undefined, in order
Defined(ys) ==
  IF Len(ys) = 0 THEN <<>>
  ELSE (IF Head(ys) = YieldsUndefined THEN <<>> ELSE <<Head(ys)>>)
       \o Defined(Tail(ys))

Finalized(fd) == streams[fd].returns = 1 /\ streams[fd].final \in {"running", "done"}

\* C16: for a transformer attached to a child stream (whose generator was
\* started and has not thrown), the finalization step runs at most once, and
\* exactly once by the time the pipeline has finished; it runs after the
\* last chunk of the stream has been processed; and it has run when the
\* awaitable of the invocation settles upon the process's exit.
C16_FinalBeforeSettle ==
  \A fd \in Fds :
    LET st == streams[fd]
    IN  (pc = "running" /\ st.attached /\ ~st.errored)
          => /\ st.returns <= 1
             /\ (st.final = "done" /\ Len(st.received) > 0) => st.returns = 1
             /\ st.final # "no"
                  => /\ st.received = Written(fd)
                     /\ Len(st.yields) = Len(st.received)
                     /\ Len(st.queue) = 0
             /\ (Settled /\ ExitFirst)
                  => (st.final # "no" /\ (Len(st.received) > 0 => Finalized(fd)))

-----------------------------------------------------------------------------
(* Properties of the returned handle, under Spec *)

\* the members of the awaitable
PromiseMembers == {"then", "catch", "finally"}
MemberNames == ChildProcessMembers \cup PromiseMembers \cup {"error", "other"}

-----------------------------------------------------------------------------
(* Properties of the sync launcher's trimming, under SpecSync *)

\* t is s without its trailing white space
IsTrimmedEndOf(t, s) ==
  /\ IsPrefix(t, s)
  /\ \A i \in (Len(t) + 1)..Len(s) : s[i] \in WhiteSpace
  /\ (Len(t) > 0 => t[Len(t)] \notin WhiteSpace)

\* C18: the stdout the sync launcher hands back (bare, or inside the full
\* result when `exit` is false) is the child's stdout without its trailing
\* white space when `trimEnd` is not false and stdout is text, and the
\* child's stdout unchanged otherwise: leading white space stays, a Buffer
\* or null is returned as it is.
C18_TrimEndPolicy ==
  (SyncDone /\ sync.outcome \in {"stdout", "result"})
    => LET out == sync.native.stdout
       IN  /\ sync.value = sync.result.stdout
           /\ IF resolved.options.trimEnd # "false" /\ out.tag = "str"
              THEN /\ sync.value.tag = "str"
                   /\ IsTrimmedEndOf(sync.value.chars, out.chars)
              ELSE sync.value = out

C18_Witness ==
  /\ SyncDone
  /\ sync.outcome = "result"
  /\ resolved.options.trimEnd = "absent"
  /\ sync.native.stdout = Str(<<" ", "a", " ">>)
  /\ sync.value = Str(<<" ", "a">>)

-----------------------------------------------------------------------------
(* Properties of the output buffers, under Spec *)

\* the chunks the child wrote that no 'data' event has delivered yet
Undelivered(fd) == IF fd = 1 THEN child.outPipe ELSE child.errPipe

\* C19: the data subscriptions exist from the launch on, so in every state
\* of a running invocation, and in particular when the exit handler runs
\* and afterwards, each stream's buffer holds exactly the chunks delivered
\* on that stream, once each and in delivery order: buffer and undelivered
\* chunks together are what the child wrote to that stream; and a stream
\* that is not piped has an empty buffer.
C19_BuffersComplete ==
  pc = "running" =>
    \A fd \in Fds :
      /\ Delivered(fd) \o Undelivered(fd) = Written(fd)
      /\ ~PipedFd(launched.stdio, fd) => Delivered(fd) = <<>>

C19_Witness ==
  /\ pc = "running"
  /\ events = <<"exit">>
  /\ Len(proc.outChunks) = 2
  /\ proc.outChunks[1] # proc.outChunks[2]
  /\ Len(proc.errChunks) = 1
  /\ Len(child.outPipe) = 0

-----------------------------------------------------------------------------
(* Properties of shell-mode substitution, under SpecParams *)

RECURSIVE ReplaceEach(_, _, _, _)
\* the text s with its `%s` occurrences replaced, left to right, by the
\* shell-quoted a[k], a[k+1], ... (by nothing once a is exhausted), every
\* other character kept; with `bounded`, only the occurrences that are not
\* followed by a character of [A-Za-z0-9_] count
ReplaceEach(s, a, k, bounded) ==
  IF Len(s) = 0 THEN <<>>
  ELSE IF /\ Len(s) >= 2
          /\ s[1] = "%"
          /\ s[2] = "s"
          /\ (bounded => (Len(s) = 2 \/ s[3] \notin WordChars))
  THEN (IF k <= Len(a) THEN shellEscape(a[k].chars) ELSE <<>>)
       \o ReplaceEach(SubSeq(s, 3, Len(s)), a, k + 1, bounded)
  ELSE <<Head(s)>> \o ReplaceEach(Tail(s), a, k, bounded)

\* C20 (as stated): in shell mode every `%s` occurrence of the command
\* string is replaced, left to right, by the shell-quoted next argument
\* (empty once exhausted), all other text stays, the command is not split,
\* and the launch gets no argument list beside the command string.
C20_ShellEveryOccurrence ==
  (Launched /\ ShellMode)
    => /\ IsPrefix(ReplaceEach(call.command, CallArgs, 1, FALSE), launched.command)
       /\ Len(launched.args) = 0

\* C20 (amended): the same for the `%s` occurrences that are not
\* immediately followed by a character of [A-Za-z0-9_]; a `%s` followed by
\* such a character is left in the command string as it is and consumes
\* no argument.
C20_ShellBoundedOccurrence ==
  (Launched /\ ShellMode)
    => /\ IsPrefix(ReplaceEach(call.command, CallArgs, 1, TRUE), launched.command)
       /\ Len(launched.args) = 0

C20_Witness ==
  /\ launched.by = "spawn"
  /\ ShellMode
  /\ call.command = T_e_phx
  /\ Len(CallArgs) = 3
  /\ launched.command # ReplaceEach(call.command, CallArgs, 1, FALSE)

-----------------------------------------------------------------------------
(* Arguments as opaque data in non-shell mode, under SpecParams *)

\* the positions of the `%s` tokens among the tokens after the program
PlaceholderPositions(toks) == {i \in 1..Len(toks) : toks[i] = <<"%", "s">>}
\* the rank of position i among them: 1 for the first, 2 for the second, ...
RankOf(i, toks) == Cardinality({j \in PlaceholderPositions(toks) : j <= i})

\* how often the value v occurs in the list
Occurrences(v, list) == Cardinality({i \in 1..Len(list) : list[i] = v})

\* C21: in non-shell mode the arguments are opaque data: whatever their
\* text (the text `%s` included), the k-th `%s` token of the command is
\* replaced by the k-th argument (by the empty string when there is none),
\* the other tokens stay where they are, and when there are at least as
\* many arguments as placeholders every argument appears in the launched
\* list exactly as often as in the call, after the tokens.
C21_ArgsAreOpaque ==
  (Launched /\ ~ShellMode /\ IncludesSpace(call.command))
    => LET toks == Tail(Split(call.command))
           ph   == PlaceholderPositions(toks)
           n    == Cardinality(ph)
       IN  /\ Len(launched.args) >= Len(toks)
           /\ \A i \in 1..Len(toks) :
                launched.args[i] =
                  IF i \in ph
                  THEN (IF RankOf(i, toks) <= Len(CallArgs)
                        THEN CallArgs[RankOf(i, toks)] ELSE Str(<<>>))
                  ELSE Str(toks[i])
           /\ Len(CallArgs) >= n
                => /\ Len(launched.args) = Len(toks) + Len(CallArgs) - n
                   /\ \A k \in 1..Len(CallArgs) :
                        Occurrences(CallArgs[k], launched.args)
                          >= Occurrences(CallArgs[k], CallArgs)

-----------------------------------------------------------------------------
(* Options in the third position, under SpecParams *)

\* the keys an options object has
OptionKeys(o) ==
  {k \in FlagKeys : o[k] # "absent"} \cup
  (IF o.stdio.kind # "absent" THEN {"stdio"} ELSE {})

\* C22: options given in the third position are applied whenever the
\* second position is not an options object (an argument list, or
\* undefined): every field of them is in the effective options, as for
\* (command, [], options) and (command, options).
C22_ThirdPositionOptions ==
  (Launched /\ call.param3.tag = "obj" /\ call.param2.tag # "obj")
    => \A k \in OptionKeys(call.param3.opts) :
         resolved.options[k] = call.param3.opts[k]

-----------------------------------------------------------------------------
(* Settling once, under Spec *)

\* what the handler of the first process event decided
FirstDecision ==
  IF events[1] = "error" THEN "reject raw"
  ELSE IF Failed /\ ~RejectOff THEN "reject trace"
  ELSE "resolve proc"

\* the promise carries the decision of the first event
CarriesFirstDecision ==
  (pc = "running" /\ Len(events) > 0)
    => CASE FirstDecision = "reject raw" ->
              promise.state = "rejected" /\ promise.value = "rawError"
         [] FirstDecision = "reject trace" ->
              promise.state = "rejected" /\ promise.value = "trace"
         [] OTHER ->
              /\ promise.alreadyResolved
              /\ promise.state # "rejected"
              /\ promise.value \in {"none", "proc"}

\* C23: the awaitable settles at most once and never changes afterwards:
\* in every interleaving of the error and exit events the promise carries
\* what the first of them decided, and once an event has been handled no
\* later step changes its state, its rejection reason or its value.
C23_SettlesOnce ==
  /\ []CarriesFirstDecision
  /\ [][(pc = "running" /\ Len(events) > 0)
          => (promise'.state = promise.state /\ promise'.value = promise.value)]_vars

C23_Witness ==
  /\ pc = "running"
  /\ events = <<"exit", "error">>
  /\ promise.state = "rejected"
  /\ promise.value = "trace"
  /\ Quiet

-----------------------------------------------------------------------------
(* A failing transformer, under SpecStream *)

\* C24: an error raised by a transformer's step or finalization aborts only
\* that stream's pipeline: the errored pipeline holds no chunk and runs no
\* step, and the invocation goes on, its promise left to the exit and error
\* events of the child.
C24_TransformerErrorIsLocal ==
  \A fd \in Fds :
    streams[fd].errored
      => /\ Len(streams[fd].queue) = 0
         /\ ~streams[fd].busy
         /\ pc = "running"

-----------------------------------------------------------------------------
(* Backpressure, under SpecStream *)

\* C25: the pipeline takes chunk k+1 only when the transformer has produced
\* its value for chunk k and the write of that value to the parent's stream
\* has drained: while write() holds a chunk, every earlier chunk has its
\* step's result and the sink has nothing undrained.
C25_Backpressure ==
  \A fd \in Fds :
    streams[fd].busy
      => /\ Len(streams[fd].yields) + 1 >= Len(streams[fd].received)
         /\ ~streams[fd].undrained

-----------------------------------------------------------------------------
(* The stdio array and its pipelines, under SpecParams *)

EffectiveStdio == resolved.options.stdio

PipelinesFrom(i) == {q \in launched.pipelines : q.source = i}

\* C26: for an array specification the launch gets a list of the same
\* length with 'pipe' where the specification holds a transformer and the
\* specification's entry elsewhere; each transformer position i has exactly
\* one pipeline, from the child's stream i to the parent's standard stream
\* i, no other position has one, and pipelines exist only with a created
\* child; another specification is handed on as it is, with no pipeline.
C26_StdioPipelines ==
  launched.by = "spawn"
    => IF EffectiveStdio.kind = "array"
       THEN LET es == EffectiveStdio.entries
            IN  /\ launched.stdio.kind = "array"
                /\ Len(launched.stdio.entries) = Len(es)
                /\ \A i \in 1..Len(es) :
                     /\ launched.stdio.entries[i] =
                          (IF es[i] = "fn" THEN "pipe" ELSE es[i])
                     /\ PipelinesFrom(i - 1) =
                          (IF es[i] = "fn"
                           THEN {[source |-> i - 1, sink |-> i - 1]}
                           ELSE {})
                /\ \A q \in launched.pipelines : q.source + 1 \in 1..Len(es)
                /\ launched.pipelines # {} => child.alive
       ELSE /\ launched.stdio = EffectiveStdio
            /\ launched.pipelines = {}

C26_Witness ==
  /\ launched.by = "spawn"
  /\ EffectiveStdio = StdioArr(<<"fn", "inherit", "fn", "pipe">>)
  /\ launched.stdio = StdioArr(<<"pipe", "inherit", "pipe", "pipe">>)
  /\ Cardinality(launched.pipelines) = 2

-----------------------------------------------------------------------------
(* The output members of the handle, under SpecRead *)

\* proc.stdout / proc.stderr as the launch left them
LiveMember(fd) == IF PipedFd(launched.stdio, fd) THEN "stream" ELSE "null"

\* C27: until the exit event is handled the handle's stdout and stderr are
\* the child's streams, or null where the stream is not piped; from the
\* handling of the exit event on they are the text accessors, whatever the
\* exit code, the signal and the reject option, and a read of a member
\* gets the one or the other accordingly.
C27_MembersSwitchAtExit ==
  pc = "running"
    => /\ IF Handled("exit")
          THEN proc.stdout = "accessor" /\ proc.stderr = "accessor"
          ELSE proc.stdout = LiveMember(1) /\ proc.stderr = LiveMember(2)
       /\ reads.name # "none"
            => IF \E i \in 1..Len(reads.after) : reads.after[i] = "exit"
               THEN reads.got.kind \notin {"stream", "null"}
               ELSE reads.got.kind = LiveMember(IF reads.name = "stdout" THEN 1 ELSE 2)

C27_Witness ==
  /\ pc = "running"
  /\ Handled("exit")
  /\ proc.exitCode = Num(0)
  /\ RejectOff
  /\ proc.stdout = "accessor"
  /\ reads.name = "stderr"
  /\ reads.after = <<"exit">>
  /\ reads.got.kind = "text"

-----------------------------------------------------------------------------
(* The error object of a failed process, under Spec *)

-----------------------------------------------------------------------------
(* The caller's inputs, under SpecParams *)

====
